---- MODULE Spec2Model ----
(***************************************************************************)
(* A model of the LSTM-DSTGCRN local model (MODELS/LSTM_DSTGCRN) and of    *)
(* the normalization helpers (MODELS/HELPERS/normalization.py).            *)
(*                                                                         *)
(* Tensors are modelled by their shape (a sequence of dimension sizes) and *)
(* by the symbolic term that says how they were computed; the framework's  *)
(* shape rules (broadcasting, einsum, stack, cat, squeeze, expand) decide  *)
(* whether a call returns or raises.  The scalers are computed in the      *)
(* floating-point arithmetic of their operands' dtype.                     *)
(***************************************************************************)
EXTENDS Integers, Sequences, FiniteSets, TLC

VARIABLES
    dynamic_embed,  \* the module global of LSTM_DSTGCRN.py: "None", "True", "False"
    gcn,            \* one AVWGCN instance: cheb_k and its cached_identity
    gcnCall,        \* the last AVWGCN.forward call on it
    models,         \* the constructed LSTM_DSTGCRN instances, by name
    fwd,            \* the last LSTM_DSTGCRN.forward call
    scaler,         \* one scaler object of normalization.py
    batch,          \* the data array the scaler is applied to, and its type
    scalerOut,      \* the last transform / inverse_transform call on it
    table,          \* a 2D integer array given to the column helpers
    colOut,         \* the last one_hot_by_column / minmax_by_column call
    params,         \* the parameters of one LSTM_DSTGCRN, in registration order
    weightsOut      \* the last get_weights / set_weights call on it

vars == <<dynamic_embed, gcn, gcnCall, models, fwd, scaler, batch, scalerOut, table, colOut,
          params, weightsOut>>

gcnVars == <<gcn, gcnCall>>
modelVars == <<models, fwd>>
scalerVars == <<scaler, batch, scalerOut>>
tableVars == <<table, colOut>>
weightVars == <<params, weightsOut>>

(***************************************************************************)
(* Bounds of the model.                                                    *)
(***************************************************************************)
MaxLayers == 2      \* args.num_layers ranges over 1..MaxLayers
MaxT == 2           \* sequence length (args.lookback) ranges over 1..MaxT
MaxNodes == 2       \* args.num_nodes ranges over 1..MaxNodes
MaxCheb == 3        \* args.cheb_k ranges over 1..MaxCheb
BatchSize == 2      \* args.batch_size; batches range over 1..BatchSize
EmbedDim == 2       \* args.embed_dim
InputDim == 1       \* args.input_dim
RnnUnits == 2       \* args.rnn_units (the hidden dimension)

(***************************************************************************)
(* Shape rules of the tensor framework.                                    *)
(***************************************************************************)
\* Two sizes of one dimension broadcast when they are equal or one is 1;
\* 0 stands for "do not broadcast".
Bc(a, b) == IF a = b THEN a ELSE IF a = 1 THEN b ELSE IF b = 1 THEN a ELSE 0

\* Broadcast of two shapes of the same rank; <<>> when they do not broadcast.
BcShape(s, t) ==
    IF Len(s) # Len(t) \/ \E i \in 1..Len(s) : Bc(s[i], t[i]) = 0
    THEN <<>>
    ELSE [i \in 1..Len(s) |-> Bc(s[i], t[i])]

\* tensor.squeeze(): every dimension of size 1 is removed.
Squeeze(s) == SelectSeq(s, LAMBDA d : d # 1)

(***************************************************************************)
(* Symbolic support terms.  A is the data-dependent similarity graph       *)
(* relu(nodevec nodevec^T).                                                *)
(***************************************************************************)
TermI == <<"I">>
TermA == <<"A">>

\* AVWGCN.get_laplacian(graph, I): D^-1/2 (graph + I) D^-1/2.
get_laplacian(graph, I) == <<"lap", graph, I>>

TermL == get_laplacian(TermA, TermI)

\* x_g[:, n, :, :] of the permuted propagated features x_g (B, N, 3, C): the
\* features of node n under each of the three supports.
XgIndex(n) == <<"x_g_index", n>>

\* 2 * matmul(supports, last) - secondlast
ChebStep(L, last, secondlast) == <<"cheb", L, last, secondlast>>

NoTensor == [shape |-> <<>>, kind |-> "none", term |-> <<"none">>]

GcnFail(cached, identN) ==
    [ok |-> FALSE, cached |-> cached, identN |-> identN, out |-> <<>>,
     terms |-> <<>>, adj |-> NoTensor]

(***************************************************************************)
(* AVWGCN.forward, dynamic branch (dynamic_embed truthy).                  *)
(* xs is the shape of x, es the shape of node_embeddings (rank 3).         *)
(***************************************************************************)
RECURSIVE support_set(_, _)
support_set(cheb_k, k) ==
    \* the list after the loop "for k in range(2, cheb_k)" has reached k
    IF k <= 2 THEN <<TermI, TermL>>
    ELSE LET prev == support_set(cheb_k, k - 1)
         IN  Append(prev, ChebStep(TermL, prev[Len(prev)], prev[Len(prev) - 1]))

SupportSetDynamic(cheb_k) == support_set(cheb_k, cheb_k)

AVWGCN_dynamic(cheb_k, dim_in, dim_out, cached, xs, es) ==
    LET B == es[1]
        N == es[2]
        cN == IF cached = 0 THEN N ELSE cached      \* hasattr(self, 'cached_identity')
        supports1 == <<B, cN, cN>>
        filter == <<xs[1], xs[2], EmbedDim>>
        nodevec == BcShape(es, filter)
        graph == <<nodevec[1], nodevec[2], nodevec[2]>>
        lap == BcShape(graph, supports1)            \* graph + I in get_laplacian
        set == SupportSetDynamic(cheb_k)
        K == Len(set)
        \* torch.stack: every support has the shape of the first
        stacked == <<B, K, cN, cN>>
        xg_b == Bc(B, xs[1])
        xg_m == Bc(cN, xs[2])
        x_g == <<xg_b, K, cN, xs[3]>>               \* "bknm,bmc->bknc"
        weights == <<B, N, cheb_k, dim_in, dim_out>>
        bias == <<B, N, dim_out>>
        gc_n == Bc(cN, N)
        gc_k == Bc(K, cheb_k)
        gc_i == Bc(xs[3], dim_in)
        gc_b == Bc(xg_b, B)
        x_gconv == BcShape(<<gc_b, gc_n, dim_out>>, bias)
    IN  IF xs[3] # dim_in \/ es[3] # EmbedDim THEN GcnFail(cN, cN)
        ELSE IF nodevec = <<>> THEN GcnFail(cN, cN)
        ELSE IF lap = <<>> THEN GcnFail(cN, cN)
        ELSE IF lap # supports1 THEN GcnFail(cN, cN)
        ELSE IF xg_b = 0 \/ xg_m = 0 THEN GcnFail(cN, cN)
        ELSE IF gc_n = 0 \/ gc_k = 0 \/ gc_i = 0 \/ gc_b = 0 THEN GcnFail(cN, cN)
        ELSE IF x_gconv = <<>> THEN GcnFail(cN, cN)
        ELSE [ok |-> TRUE, cached |-> cN, identN |-> cN, out |-> x_gconv,
              terms |-> set,
              adj |-> [shape |-> <<stacked[1], stacked[3], stacked[4]>>,
                       kind |-> "support", term |-> set[2]]]

(***************************************************************************)
(* AVWGCN.forward, static branch (dynamic_embed falsy).                    *)
(***************************************************************************)
SupportSetStatic ==
    LET supports1 == TermI
        supports2 == get_laplacian(TermA, supports1)
        supports3 == get_laplacian(TermA, supports2)
    IN  <<supports1, supports2, supports3>>

AVWGCN_static(cheb_k, dim_in, dim_out, cached, xs, es) ==
    LET batch_size == xs[1]
        ne == Squeeze(es)
        node_num == ne[1]
        supports1 == <<node_num, node_num>>
        filter == <<xs[1], xs[2], EmbedDim>>
        \* node_embeddings.unsqueeze(0).expand(batch_size, -1, -1)
        expanded == IF Len(ne) = 2 THEN <<batch_size, ne[1], ne[2]>>
                    ELSE <<batch_size, 1, ne[1]>>
        nodevec == BcShape(expanded, filter)
        graph == <<nodevec[1], nodevec[2], nodevec[2]>>
        supports2 == BcShape(graph, <<1, node_num, node_num>>)
        supports3 == BcShape(graph, supports2)
        x_g1 == <<xs[1], node_num, xs[3]>>          \* "nm,bmc->bnc"
        x_g2 == <<Bc(supports2[1], xs[1]), supports2[2], xs[3]>>
        x_g3 == <<Bc(supports3[1], xs[1]), supports3[2], xs[3]>>
        set == SupportSetStatic
        x_g == <<x_g1[1], x_g1[2], Len(set), x_g1[3]>>  \* stack, then permute(0, 2, 1, 3)
        weights == <<ne[1], cheb_k, dim_in, dim_out>>
        bias == <<1, ne[1], dim_out>>
        gc_n == Bc(x_g[2], ne[1])
        gc_k == Bc(x_g[3], cheb_k)
        x_gconv == BcShape(<<x_g[1], gc_n, dim_out>>, bias)
    IN  IF Len(ne) = 0 THEN GcnFail(cached, 0)                   \* shape[0] of a scalar
        ELSE IF xs[3] # dim_in THEN GcnFail(cached, node_num)
        ELSE IF Len(ne) > 2 THEN GcnFail(cached, node_num)       \* expand: too few sizes
        ELSE IF nodevec = <<>> THEN GcnFail(cached, node_num)
        ELSE IF supports2 = <<>> \/ supports3 = <<>> THEN GcnFail(cached, node_num)
        ELSE IF Bc(node_num, xs[2]) = 0 \/ Bc(supports2[3], xs[2]) = 0
                \/ Bc(supports3[3], xs[2]) = 0 \/ x_g2[1] = 0 \/ x_g3[1] = 0
             THEN GcnFail(cached, node_num)
        ELSE IF x_g1 # x_g2 \/ x_g1 # x_g3 THEN GcnFail(cached, node_num)
        ELSE IF Len(ne) # 2 \/ ne[2] # EmbedDim THEN GcnFail(cached, node_num)
        ELSE IF gc_n = 0 \/ gc_k = 0 \/ x_gconv = <<>> THEN GcnFail(cached, node_num)
        ELSE IF x_g[2] < 2 THEN GcnFail(cached, node_num)        \* supports[:, 1, :, :]
        ELSE [ok |-> TRUE, cached |-> cached, identN |-> node_num, out |-> x_gconv,
              terms |-> set,
              adj |-> [shape |-> <<x_g[1], x_g[3], x_g[4]>>,
                       kind |-> "x_g", term |-> XgIndex(1)]]

Truthy(flag) == flag = "True"

AVWGCN_forward(flag, cheb_k, dim_in, dim_out, cached, xs, es) ==
    IF Truthy(flag)
    THEN AVWGCN_dynamic(cheb_k, dim_in, dim_out, cached, xs, es)
    ELSE AVWGCN_static(cheb_k, dim_in, dim_out, cached, xs, es)

(***************************************************************************)
(* AGCRNCell.forward.  x, state and node_embeddings are tensors            *)
(* [shape, term]; the new state's term records which cell produced it from *)
(* which input, previous state and embeddings.  "cache" holds the N of the *)
(* cached_identity of the cell's two AVWGCN units, self.gate and           *)
(* self.update (0: the attribute does not exist yet).                      *)
(***************************************************************************)
CellTerm(i, x, state, emb) == <<"cell", i, x, state, emb>>
AdjTerm(i, x, state, emb) == <<"adj", i, x, state, emb>>

NoCache == [gate |-> 0, update |-> 0]

CellFail(cache) == [ok |-> FALSE, h |-> NoTensor, adjmatrix |-> NoTensor, cache |-> cache]

\* The one element of a singleton set: "Only({F(v) : v \in {e}})" computes
\* e once and names its value v.
Only(S) == CHOOSE v \in S : TRUE

\* Lines 149-153: h = r * state + (1 - r) * tanh(hc), with hc from the update unit u.
cell_after_update(i, hidden_dim, x, state, emb, g, u, cache) ==
    LET ss == state.shape
        r == <<g.out[1], g.out[2], hidden_dim>>
        rstate == BcShape(r, ss)
        rhc == BcShape(r, u.out)
        h == BcShape(rstate, rhc)
        after == [cache EXCEPT !.update = u.cached]
    IN  IF ~u.ok THEN CellFail(after)
        ELSE IF rstate = <<>> \/ rhc = <<>> \/ h = <<>> THEN CellFail(after)
        ELSE [ok |-> TRUE,
              h |-> [shape |-> h, kind |-> "state",
                     term |-> CellTerm(i, x.term, state.term, emb.term)],
              adjmatrix |-> [shape |-> g.adj.shape, kind |-> g.adj.kind,
                             term |-> AdjTerm(i, x.term, state.term, emb.term)],
              cache |-> after]

\* Lines 143-148: z, r = split(sigmoid(z_r)); candidate = cat((x, z * state));
\* hc, _ = self.update(candidate, node_embeddings), with z_r from the gate unit g.
cell_after_gate(flag, cheb_k, i, dim_in, hidden_dim, x, state, emb, g, cache) ==
    LET xs == x.shape
        ss == state.shape
        z == <<g.out[1], g.out[2], hidden_dim>>     \* torch.split(z_r, hidden_dim)
        zstate == BcShape(z, ss)
        \* torch.cat((x, z * state), dim=-1): the other dimensions must be equal
        candidate == <<xs[1], xs[2], xs[3] + zstate[3]>>
        after == [cache EXCEPT !.gate = g.cached]
    IN  IF ~g.ok THEN CellFail(after)
        ELSE IF zstate = <<>> \/ zstate[1] # xs[1] \/ zstate[2] # xs[2] THEN CellFail(after)
        ELSE Only({cell_after_update(i, hidden_dim, x, state, emb, g, u, after) :
                   u \in {AVWGCN_forward(flag, cheb_k, dim_in + hidden_dim, hidden_dim,
                                         cache.update, candidate, emb.shape)}})

AGCRNCell_forward(flag, cheb_k, i, dim_in, hidden_dim, x, state, emb, cache) ==
    LET xs == x.shape
        ss == state.shape
        \* torch.cat((x, state), dim=-1): the other dimensions must be equal
        input_and_state == <<xs[1], xs[2], xs[3] + ss[3]>>
    IN  IF xs[1] # ss[1] \/ xs[2] # ss[2] THEN CellFail(cache)
        ELSE Only({cell_after_gate(flag, cheb_k, i, dim_in, hidden_dim, x, state, emb, g,
                                   cache) :
                   g \in {AVWGCN_forward(flag, cheb_k, dim_in + hidden_dim, 2 * hidden_dim,
                                         cache.gate, input_and_state, emb.shape)}})

(***************************************************************************)
(* AVWDCRNN.forward and AVWDCRNN.init_hidden.  Layers and timesteps are    *)
(* numbered from 0 as in the source; sequences are indexed from 1.         *)
(* "caches" holds the cache of each layer's cell.                          *)
(***************************************************************************)
\* x[:, t, :, :] of the input sequence x
InputAt(xs, t) == [shape |-> <<xs[1], xs[3], xs[4]>>, kind |-> "input", term |-> <<"x", t>>]

\* init_hidden(batch_size)[i]: zeros(batch_size, node_num, hidden_dim)
init_hidden(batch_size, node_num, hidden_dim, i) ==
    [shape |-> <<batch_size, node_num, hidden_dim>>, kind |-> "state", term |-> <<"init", i>>]

\* The embeddings the cell is given at timestep t.
EmbAt(flag, emb, t) ==
    IF Truthy(flag)
    THEN [shape |-> <<emb.shape[1], emb.shape[3], emb.shape[4]>>, kind |-> "emb",
          term |-> <<"emb_t", t>>]                   \* node_embeddings[:, t, :, :]
    ELSE [shape |-> emb.shape, kind |-> "emb", term |-> <<"emb_all", 0>>]

\* Whether node_embeddings[:, t, :, :] can be taken.
EmbSliceOk(flag, emb, t) == Truthy(flag) => (Len(emb.shape) = 4 /\ t < emb.shape[2])

LayerInput(i, dim_in, hidden_dim) == IF i = 0 THEN dim_in ELSE hidden_dim

\* The state the cell is given at a timestep: the one the previous timestep
\* of the same layer left in "state" (which starts as init, init_state[i]).
StateInInit(prev, init) == init

StateIn(prev, init) == prev.state

\* The adjacency list had the reset been placed before the layer loop.
CollectAdjAll(below, lay) == below.adjmatrices \o lay.adjmatrices

\* The adjacency list a layer leaves: "adjmatrices = []" is reset at the top of
\* every layer, so the list of the layer below is dropped.
CollectAdj(below, lay) == lay.adjmatrices

\* One pass of the inner loop body (lines 188-199) at timestep t, after prev.
time_step(flag, cheb_k, dim_in, hidden_dim, i, input, init, emb, t, prev) ==
    IF ~prev.ok THEN prev
    ELSE IF ~EmbSliceOk(flag, emb, t) THEN [prev EXCEPT !.ok = FALSE]
    ELSE Only({IF ~c.ok THEN [prev EXCEPT !.ok = FALSE, !.cache = c.cache]
               ELSE [ok |-> TRUE, state |-> c.h,
                     inner_states |-> Append(prev.inner_states, c.h),
                     adjmatrices |-> Append(prev.adjmatrices, c.adjmatrix),
                     cache |-> c.cache] :
               c \in {AGCRNCell_forward(flag, cheb_k, i, LayerInput(i, dim_in, hidden_dim),
                                        hidden_dim, input, StateIn(prev, init),
                                        EmbAt(flag, emb, t), prev.cache)}})

RECURSIVE time_loop(_, _, _, _, _, _, _, _, _, _)
\* Layer i after the timesteps 0 .. n-1: the state, inner_states and adjmatrices.
time_loop(flag, cheb_k, dim_in, hidden_dim, i, current_inputs, init, emb, cache, n) ==
    IF n = 0
    THEN [ok |-> TRUE, state |-> init, inner_states |-> <<>>, adjmatrices |-> <<>>,
          cache |-> cache]
    ELSE Only({time_step(flag, cheb_k, dim_in, hidden_dim, i, current_inputs[n], init,
                         emb, n - 1, prev) :
               prev \in {time_loop(flag, cheb_k, dim_in, hidden_dim, i, current_inputs,
                                   init, emb, cache, n - 1)}})

\* One pass of the outer loop body (lines 184-201) for layer i, after below.
\* torch.stack(inner_states) of an empty list raises.
layer_step(flag, cheb_k, dim_in, hidden_dim, i, init, emb, below) ==
    Only({IF ~lay.ok \/ lay.inner_states = <<>>
          THEN [below EXCEPT !.ok = FALSE, !.caches[i + 1] = lay.cache]
          ELSE [ok |-> TRUE,
                current_inputs |-> lay.inner_states,
                output_hidden |-> Append(below.output_hidden, lay.state),
                adjmatrices |-> CollectAdj(below, lay),
                caches |-> [below.caches EXCEPT ![i + 1] = lay.cache]] :
          lay \in {time_loop(flag, cheb_k, dim_in, hidden_dim, i,
                             below.current_inputs, init, emb, below.caches[i + 1],
                             Len(below.current_inputs))}})

RECURSIVE layer_loop(_, _, _, _, _, _, _, _, _)
\* The encoder after the layers 0 .. n-1; init_state[i] of a missing entry raises.
layer_loop(flag, cheb_k, dim_in, hidden_dim, x, init_state, emb, caches, n) ==
    IF n = 0
    THEN [ok |-> TRUE, current_inputs |-> x, output_hidden |-> <<>>, adjmatrices |-> <<>>,
          caches |-> caches]
    ELSE Only({IF ~below.ok THEN below
               ELSE IF n > Len(init_state) THEN [below EXCEPT !.ok = FALSE]
               ELSE layer_step(flag, cheb_k, dim_in, hidden_dim, n - 1, init_state[n],
                               emb, below) :
               below \in {layer_loop(flag, cheb_k, dim_in, hidden_dim, x, init_state,
                                     emb, caches, n - 1)}})

EncFail(caches) ==
    [ok |-> FALSE, current_inputs |-> <<>>, output_hidden |-> <<>>, adjmatrices |-> <<>>,
     caches |-> caches]

\* xs is the shape (B, T, N, D) of x; line 179 asserts N and D against the
\* encoder's node_num and input_dim before anything else runs.
AVWDCRNN_forward(flag, node_num, cheb_k, num_layers, dim_in, hidden_dim, xs, init_state, emb, caches) ==
    IF xs[3] # node_num \/ xs[4] # dim_in THEN EncFail(caches)
    ELSE layer_loop(flag, cheb_k, dim_in, hidden_dim,
                    [t \in 1..xs[2] |-> InputAt(xs, t - 1)], init_state, emb, caches,
                    num_layers)

(***************************************************************************)
(* LSTM_DSTGCRN.__init__ and LSTM_DSTGCRN.forward.                         *)
(***************************************************************************)
Lookahead == 1      \* args.lookahead
OutputDim == 1      \* args.output_dim

ModelIds == {"m1", "m2"}

Args ==
    [dynamic_embed : BOOLEAN, TNE : BOOLEAN, num_layers : 1..MaxLayers,
     cheb_k : 1..MaxCheb, num_nodes : 1..MaxNodes, lookback : 1..MaxT]

NoArgs ==
    [dynamic_embed |-> FALSE, TNE |-> FALSE, num_layers |-> 1, cheb_k |-> 1,
     num_nodes |-> 1, lookback |-> 1]

NoModel == [built |-> FALSE, args |-> NoArgs, has_node_embeddings |-> FALSE,
            has_dynamic_embedding |-> FALSE, caches |-> <<>>]

PyBool(b) == IF b THEN "True" ELSE "False"

\* The object __init__ leaves: which embedding attribute it created, and an
\* encoder of num_layers cells whose units have no cached_identity yet.
NewModel(args) ==
    [built |-> TRUE, args |-> args,
     has_node_embeddings |-> args.TNE \/ ~args.dynamic_embed,
     has_dynamic_embedding |-> ~args.TNE /\ args.dynamic_embed,
     caches |-> [i \in 1..args.num_layers |-> NoCache]]

NoEnc == EncFail(<<>>)

NoFwd == [called |-> FALSE, model |-> "m1", flag |-> "None", ok |-> FALSE,
          embedding |-> "none", enc |-> NoEnc, caches |-> <<>>, output |-> NoTensor,
          adjmatrices |-> NoTensor]

\* Which node embeddings forward takes: the branch of lines 353-360 and the
\* attribute it reads, which __init__ may not have created.
EmbeddingPath(m, flag) ==
    IF m.args.TNE THEN "TNE"
    ELSE IF Truthy(flag)
         THEN (IF m.has_dynamic_embedding THEN "dynamic" ELSE "AttributeError")
         ELSE (IF m.has_node_embeddings THEN "static" ELSE "AttributeError")

\* The shape of the node embeddings on each path, for a source of shape
\* (B, T, N, input_dim).
EmbeddingTensor(m, path, B, T) ==
    [shape |-> IF path = "TNE" THEN <<BatchSize, m.args.lookback, m.args.num_nodes, EmbedDim>>
               ELSE IF path = "dynamic" THEN <<B, T, m.args.num_nodes, EmbedDim>>
               ELSE <<1, m.args.num_nodes, EmbedDim>>,
     kind |-> "emb", term |-> <<"emb">>]

\* Lines 368-378 once the encoder has returned enc.
forward_after_encoder(id, m, flag, path, enc) ==
    LET T == m.args.lookback
        last == enc.current_inputs[T]               \* output[:, -1:, :, :]
        a1 == enc.adjmatrices[1]
    IN  IF ~enc.ok
        THEN [NoFwd EXCEPT !.called = TRUE, !.model = id, !.flag = flag,
                           !.embedding = path, !.enc = enc, !.caches = enc.caches]
        ELSE [called |-> TRUE, model |-> id, flag |-> flag, ok |-> TRUE,
              embedding |-> path, enc |-> enc, caches |-> enc.caches,
              output |-> [shape |-> <<last.shape[1], Lookahead, m.args.num_nodes, OutputDim>>,
                          kind |-> "prediction", term |-> <<"end_conv", last.term>>],
              \* torch.stack(adjmatrices, dim=1)
              adjmatrices |-> [shape |-> <<a1.shape[1], Len(enc.adjmatrices)>>
                                         \o SubSeq(a1.shape, 2, Len(a1.shape)),
                               kind |-> a1.kind, term |-> <<"stack">>]]

LSTM_DSTGCRN_forward(id, m, flag, B) ==
    LET T == m.args.lookback
        N == m.args.num_nodes
        L == m.args.num_layers
        source == <<B, T, N, InputDim>>
        path == EmbeddingPath(m, flag)
        node_embeddings == EmbeddingTensor(m, path, B, T)
        init_state == [i \in 1..L |-> init_hidden(B, N, RnnUnits, i - 1)]
    IN  IF path = "AttributeError"
        THEN [NoFwd EXCEPT !.called = TRUE, !.model = id, !.flag = flag,
                           !.embedding = path, !.caches = m.caches]
        ELSE Only({forward_after_encoder(id, m, flag, path, enc) :
                   enc \in {AVWDCRNN_forward(flag, N, m.args.cheb_k, L, InputDim, RnnUnits,
                                             source, init_state, node_embeddings,
                                             m.caches)}})

(***************************************************************************)
(* Idle values of the parts a specification does not exercise.             *)
(***************************************************************************)
NoGcn == [cheb_k |-> 1, cached |-> 0]
NoGcnCall == [called |-> FALSE, flag |-> "None", B |-> 1, N |-> 1,
              res |-> GcnFail(0, 0)]

IdleGcn == gcn = NoGcn /\ gcnCall = NoGcnCall
IdleModels == models = [id \in ModelIds |-> NoModel] /\ fwd = NoFwd

(***************************************************************************)
(* The models specification: constructions and forward calls, in any       *)
(* order, of up to two LSTM_DSTGCRN instances in one process.              *)
(***************************************************************************)
\* The instances of one process are built from one configuration: they share
\* every argument but the two ablation switches.
SameConfig(a, b) ==
    /\ a.num_layers = b.num_layers /\ a.cheb_k = b.cheb_k
    /\ a.num_nodes = b.num_nodes /\ a.lookback = b.lookback

Construct(id, args) ==
    /\ ~models[id].built
    /\ \A other \in ModelIds : models[other].built => SameConfig(models[other].args, args)
    /\ dynamic_embed' = PyBool(args.dynamic_embed)  \* global dynamic_embed
    /\ models' = [models EXCEPT ![id] = NewModel(args)]
    /\ UNCHANGED <<fwd, gcnVars, scalerVars, tableVars, weightVars>>

Forward(id) ==
    /\ models[id].built
    /\ fwd' = LSTM_DSTGCRN_forward(id, models[id], dynamic_embed, BatchSize)
    /\ models' = [models EXCEPT ![id].caches = fwd'.caches]
    /\ UNCHANGED <<dynamic_embed, gcnVars, scalerVars, tableVars, weightVars>>

(***************************************************************************)
(* Numbers of the normalization helpers: IEEE 754 binary floating point,   *)
(* the arithmetic of numpy's float64, float32 and float16 arrays and of    *)
(* torch's float32 tensors.  A number is a record: c is "fin", "inf" or "nan", s is the    *)
(* sign (1 or -1; zero is signed), and a finite number is s * m * 2^e with *)
(* m a natural number that is odd unless the number is zero.  Naturals of  *)
(* any size are sequences of digits below Limb, least significant first,   *)
(* the last digit not 0; <<>> is 0.                                        *)
(***************************************************************************)
Limb == 8192        \* 2^13

Float64 == [p |-> 53, emin |-> -1074, emax |-> 1023]
Float32 == [p |-> 24, emin |-> -149, emax |-> 127]
Float16 == [p |-> 11, emin |-> -24, emax |-> 15]

Digit(a, i) == IF i >= 1 /\ i <= Len(a) THEN a[i] ELSE 0

RECURSIVE Trim(_)
Trim(a) ==
    IF Len(a) = 0 THEN <<>>
    ELSE IF a[Len(a)] = 0 THEN Trim(SubSeq(a, 1, Len(a) - 1))
    ELSE a

RECURSIVE Carry(_, _, _)
\* the digits, from position i on, of the sum of d[j] * Limb^(j-1), carry c coming in
Carry(d, i, c) ==
    IF i > Len(d) THEN (IF c = 0 THEN <<>> ELSE <<c % Limb>> \o Carry(d, i, c \div Limb))
    ELSE <<(d[i] + c) % Limb>> \o Carry(d, i + 1, (d[i] + c) \div Limb)

BigAdd(a, b) ==
    Carry([i \in 1..(IF Len(a) > Len(b) THEN Len(a) ELSE Len(b)) |-> Digit(a, i) + Digit(b, i)],
          1, 0)

RECURSIVE Borrow(_, _, _, _)
\* the digits, from position i on, of a - b for a >= b, borrow c coming in
Borrow(a, b, i, c) ==
    IF i > Len(a) THEN <<>>
    ELSE <<(a[i] - Digit(b, i) - c + Limb) % Limb>>
            \o Borrow(a, b, i + 1, IF a[i] - Digit(b, i) - c < 0 THEN 1 ELSE 0)

RECURSIVE BigCmpFrom(_, _, _)
BigCmpFrom(a, b, i) ==
    IF i = 0 THEN 0
    ELSE IF a[i] # b[i] THEN (IF a[i] < b[i] THEN -1 ELSE 1)
    ELSE BigCmpFrom(a, b, i - 1)

\* -1, 0 or 1 as a < b, a = b or a > b
BigCmp(a, b) ==
    IF Len(a) # Len(b) THEN (IF Len(a) < Len(b) THEN -1 ELSE 1)
    ELSE BigCmpFrom(a, b, Len(a))

RECURSIVE ProdDigit(_, _, _, _)
\* the sum of a[j] * b[k + 1 - j] for j >= i
ProdDigit(a, b, k, i) ==
    IF i > Len(a) \/ i > k THEN 0
    ELSE (IF k + 1 - i <= Len(b) THEN a[i] * b[k + 1 - i] ELSE 0) + ProdDigit(a, b, k, i + 1)

BigMul(a, b) ==
    IF Len(a) = 0 \/ Len(b) = 0 THEN <<>>
    ELSE Carry([k \in 1..(Len(a) + Len(b) - 1) |-> ProdDigit(a, b, k, 1)], 1, 0)

\* a * 2^k
BigShl(a, k) ==
    [i \in 1..(IF Len(a) = 0 THEN 0 ELSE k \div 13) |-> 0]
        \o Carry([i \in 1..Len(a) |-> a[i] * 2^(k % 13)], 1, 0)

\* a \div 2^k
BigShr(a, k) ==
    Trim([i \in 1..(Len(a) - (k \div 13)) |->
            (a[i + (k \div 13)] \div 2^(k % 13))
            + (Digit(a, i + (k \div 13) + 1) % 2^(k % 13))
                  * 2^(13 - (k % 13))])

RECURSIVE IntBits(_)
IntBits(n) == IF n = 0 THEN 0 ELSE 1 + IntBits(n \div 2)

\* the number of binary digits of a
BitLen(a) == IF Len(a) = 0 THEN 0 ELSE 13 * (Len(a) - 1) + IntBits(a[Len(a)])

RECURSIVE IntLowZeros(_)
IntLowZeros(n) == IF n % 2 = 1 THEN 0 ELSE 1 + IntLowZeros(n \div 2)

RECURSIVE LowZeros(_, _)
\* the number of 0 bits below the lowest 1 bit of a # 0, looking from digit i on
LowZeros(a, i) == IF a[i] = 0 THEN 13 + LowZeros(a, i + 1) ELSE IntLowZeros(a[i])

BigBit(a, k) == (Digit(a, (k \div 13) + 1) \div 2^(k % 13)) % 2

RECURSIVE QuotDigit(_, _, _, _)
\* the largest d in lo .. lo + 2 * bit - 1 with d * b <= r, given lo * b <= r
QuotDigit(r, b, lo, bit) ==
    IF bit = 0 THEN lo
    ELSE IF BigCmp(BigMul(b, <<lo + bit>>), r) <= 0 THEN QuotDigit(r, b, lo + bit, bit \div 2)
    ELSE QuotDigit(r, b, lo, bit \div 2)

RECURSIVE LongDiv(_, _, _)
\* <<quotient, remainder>> of (the digits i.. of a) by b # 0: schoolbook
\* division, one digit of the quotient per digit of a
LongDiv(a, b, i) ==
    IF i > Len(a) THEN <<(<<>>), (<<>>)>>
    ELSE Only({Only({Only({<<(<<d>>) \o hi[1], Trim(Borrow(r, BigMul(b, Trim(<<d>>)), 1, 0))>> :
                           d \in {QuotDigit(r, b, 0, Limb \div 2)}}) :
                     r \in {Trim(<<a[i]>> \o hi[2])}}) :
               hi \in {LongDiv(a, b, i + 1)}})

RECURSIVE DivSmall(_, _, _)
\* <<quotient, remainder>> of (the digits i.. of a) by a single digit d # 0
DivSmall(a, d, i) ==
    IF i > Len(a) THEN <<(<<>>), 0>>
    ELSE Only({<<(<<(hi[2] * Limb + a[i]) \div d>>) \o hi[1], (hi[2] * Limb + a[i]) % d>> :
               hi \in {DivSmall(a, d, i + 1)}})

\* <<quotient, remainder>> of a by b # 0
BigDivMod(a, b) ==
    IF Len(b) = 1
    THEN Only({<<Trim(qr[1]), Trim(<<qr[2]>>)>> : qr \in {DivSmall(a, b[1], 1)}})
    ELSE Only({<<Trim(qr[1]), qr[2]>> : qr \in {LongDiv(a, b, 1)}})

NaN == [c |-> "nan", s |-> 1, m |-> <<>>, e |-> 0]
Inf(s) == [c |-> "inf", s |-> s, m |-> <<>>, e |-> 0]
Zero(s) == [c |-> "fin", s |-> s, m |-> <<>>, e |-> 0]

\* s * m * 2^e for m # 0, the mantissa made odd
Fin(s, m, e) ==
    Only({[c |-> "fin", s |-> s, m |-> BigShr(m, z), e |-> e + z] : z \in {LowZeros(m, 1)}})

\* The number of the format nearest to s * (n * 2^e + a positive amount below
\* 2^e if sticky), for n # 0; ties go to the even mantissa, and what lies
\* beyond the largest finite number becomes an infinity.
Round(fmt, s, n, e, sticky) ==
    LET top == e + BitLen(n)
        low == IF top - fmt.p < fmt.emin THEN fmt.emin ELSE top - fmt.p
        cut == low - e
    IN  IF cut <= 0 THEN (IF top > fmt.emax + 1 THEN Inf(s) ELSE Fin(s, n, e))
        ELSE Only({IF Len(r) = 0 THEN Zero(s)
                   ELSE IF BitLen(r) + low > fmt.emax + 1 THEN Inf(s)
                   ELSE Fin(s, r, low) :
                   r \in {Only({IF BigBit(n, cut - 1) = 1
                                   /\ (sticky \/ LowZeros(n, 1) < cut - 1 \/ BigBit(q, 0) = 1)
                                THEN BigAdd(q, <<1>>) ELSE q :
                                q \in {BigShr(n, cut)}})}})

\* the integer k as a number
Num(k) ==
    IF k = 0 THEN Zero(1)
    ELSE IF k > -Limb /\ k < Limb
    THEN [c |-> "fin", s |-> IF k < 0 THEN -1 ELSE 1,
          m |-> <<(IF k < 0 THEN -k ELSE k) \div 2^IntLowZeros(IF k < 0 THEN -k ELSE k)>>,
          e |-> IntLowZeros(IF k < 0 THEN -k ELSE k)]
    ELSE Fin(IF k < 0 THEN -1 ELSE 1, Carry(<<IF k < 0 THEN -k ELSE k>>, 1, 0), 0)
IsFinite(a) == a.c = "fin"
IsZero(a) == a.c = "fin" /\ Len(a.m) = 0
FNeg(a) == IF a.c = "nan" THEN a ELSE [a EXCEPT !.s = -a.s]

\* An integer below 2^11 in size, which every format holds, and its value;
\* the sum or product k of two of them as a number of the format.
IsSmall(a) == a.c = "fin" /\ (Len(a.m) = 0 \/ (Len(a.m) = 1 /\ a.e >= 0 /\ a.e < 11 /\ a.m[1] * 2^a.e < 2048))
IntOf(a) == IF Len(a.m) = 0 THEN 0 ELSE a.s * a.m[1] * 2^a.e
OfInt(fmt, k) ==
    IF k > -2048 /\ k < 2048 THEN Num(k)
    ELSE Only({Round(fmt, n.s, n.m, n.e, FALSE) : n \in {Num(k)}})

\* .type(torch.float32) of one entry
Cast(fmt, a) == IF a.c # "fin" \/ IsSmall(a) THEN a ELSE Round(fmt, a.s, a.m, a.e, FALSE)

\* a finite x # 0 lies in [2^(Top(x) - 1), 2^Top(x))
Top(x) == x.e + BitLen(x.m)

\* x + y for finite x, y # 0 of the format; a y below a quarter of the last
\* place of x leaves x
AddFinite(fmt, x, y) ==
    LET e == IF x.e < y.e THEN x.e ELSE y.e
    IN  IF Top(x) > Top(y) + fmt.p + 2 THEN x
        ELSE IF Top(y) > Top(x) + fmt.p + 2 THEN y
        ELSE
        Only({IF x.s = y.s THEN Only({Round(fmt, x.s, n, e, FALSE) : n \in {BigAdd(a, b)}})
              ELSE IF BigCmp(a, b) = 0 THEN Zero(1)
              ELSE IF BigCmp(a, b) > 0
                   THEN Only({Round(fmt, x.s, n, e, FALSE) : n \in {Trim(Borrow(a, b, 1, 0))}})
              ELSE Only({Round(fmt, y.s, n, e, FALSE) : n \in {Trim(Borrow(b, a, 1, 0))}}) :
              a \in {BigShl(x.m, x.e - e)}, b \in {BigShl(y.m, y.e - e)}})

AddValues(fmt, x, y) ==
    IF x.c = "nan" \/ y.c = "nan" THEN NaN
    ELSE IF x.c = "inf" THEN (IF y.c = "inf" /\ y.s # x.s THEN NaN ELSE x)
    ELSE IF y.c = "inf" THEN y
    ELSE IF IsZero(x) /\ IsZero(y) THEN Zero(IF x.s = -1 /\ y.s = -1 THEN -1 ELSE 1)
    ELSE IF IsZero(x) THEN y
    ELSE IF IsZero(y) THEN x
    ELSE IF IsSmall(x) /\ IsSmall(y) THEN OfInt(fmt, IntOf(x) + IntOf(y))
    ELSE AddFinite(fmt, x, y)

FAdd(fmt, a, b) == Only({AddValues(fmt, x, y) : x \in {a}, y \in {b}})
FSub(fmt, a, b) == FAdd(fmt, a, FNeg(b))

MulValues(fmt, x, y) ==
    IF x.c = "nan" \/ y.c = "nan" THEN NaN
    ELSE IF x.c = "inf" \/ y.c = "inf"
         THEN (IF IsZero(x) \/ IsZero(y) THEN NaN ELSE Inf(x.s * y.s))
    ELSE IF IsZero(x) \/ IsZero(y) THEN Zero(x.s * y.s)
    ELSE IF IsSmall(x) /\ IsSmall(y) THEN OfInt(fmt, IntOf(x) * IntOf(y))
    ELSE Only({Round(fmt, x.s * y.s, n, x.e + y.e, FALSE) : n \in {BigMul(x.m, y.m)}})

FMul(fmt, a, b) == Only({MulValues(fmt, x, y) : x \in {a}, y \in {b}})

\* x / y for finite x, y # 0: a quotient of at least p + 2 bits, and whether
\* the division left a remainder
DivFinite(fmt, x, y) ==
    LET k == IF fmt.p + 2 + BitLen(y.m) - BitLen(x.m) > 0
             THEN fmt.p + 2 + BitLen(y.m) - BitLen(x.m) ELSE 0
    IN  Only({Round(fmt, x.s * y.s, qr[1], x.e - y.e - k, Len(qr[2]) # 0) :
              qr \in {Only({BigDivMod(n, y.m) : n \in {BigShl(x.m, k)}})}})

DivValues(fmt, x, y) ==
    IF x.c = "nan" \/ y.c = "nan" THEN NaN
    ELSE IF x.c = "inf" THEN (IF y.c = "inf" THEN NaN ELSE Inf(x.s * y.s))
    ELSE IF y.c = "inf" THEN Zero(x.s * y.s)
    ELSE IF IsZero(y) THEN (IF IsZero(x) THEN NaN ELSE Inf(x.s * y.s))
    ELSE IF IsZero(x) THEN Zero(x.s * y.s)
    ELSE IF IsSmall(x) /\ IsSmall(y) /\ (x.s * IntOf(x)) % (y.s * IntOf(y)) = 0
         THEN Num(x.s * y.s * ((x.s * IntOf(x)) \div (y.s * IntOf(y))))
    ELSE DivFinite(fmt, x, y)

FDiv(fmt, a, b) == Only({DivValues(fmt, x, y) : x \in {a}, y \in {b}})

\* -1, 0 or 1 as x < y, x = y or x > y, for finite x, y # 0 of one sign s
CmpFinite(x, y) ==
    LET e == IF x.e < y.e THEN x.e ELSE y.e
    IN  IF Top(x) # Top(y) THEN (IF Top(x) < Top(y) THEN -x.s ELSE x.s)
        ELSE x.s * Only({BigCmp(a, b) :
                         a \in {BigShl(x.m, x.e - e)}, b \in {BigShl(y.m, y.e - e)}})

\* where a number stands among the others: -2 for -inf, 2 for inf, the sign otherwise
Rank(x) == IF x.c = "inf" THEN 2 * x.s ELSE IF IsZero(x) THEN 0 ELSE x.s

LeqValues(x, y) ==
    /\ x.c # "nan" /\ y.c # "nan"
    /\ \/ Rank(x) < Rank(y)
       \/ Rank(x) = Rank(y) /\ (x.c = "inf" \/ IsZero(x) \/ CmpFinite(x, y) <= 0)

FLeq(a, b) == Only({LeqValues(x, y) : x \in {a}, y \in {b}})
FEq(a, b) == FLeq(a, b) /\ FLeq(b, a)

MaxVal == 101       \* entries of the data given to a scaler are 0, 1 or MaxVal
MidParam == 49      \* entries of a scaler's constructor arrays are 0, MidParam
MaxParam == 3000    \* or MaxParam
Entries == {0, 1, 2}   \* values an entry of a 2D array may take
MaxRows == 2        \* 2D arrays have 0..MaxRows rows
MaxCols == 2        \* 2D arrays have 1..MaxCols columns

\* The last dimensions of the arrays given to a scaler: 1, which broadcasts
\* against any width, and 2.
Widths == {1, 2}

\* An array is modelled by its last dimension: a sequence of numbers.
\* Elementwise operations broadcast a width of 1; fmt is the format they
\* compute in.
Elem(a, i) == IF Len(a) = 1 THEN a[1] ELSE a[i]
Fits(a, b) == Bc(Len(a), Len(b)) # 0
ArrSub(fmt, a, b) == [i \in 1..Bc(Len(a), Len(b)) |-> FSub(fmt, Elem(a, i), Elem(b, i))]
ArrAdd(fmt, a, b) == [i \in 1..Bc(Len(a), Len(b)) |-> FAdd(fmt, Elem(a, i), Elem(b, i))]
ArrMul(fmt, a, b) == [i \in 1..Bc(Len(a), Len(b)) |-> FMul(fmt, Elem(a, i), Elem(b, i))]
ArrDiv(fmt, a, b) == [i \in 1..Bc(Len(a), Len(b)) |-> FDiv(fmt, Elem(a, i), Elem(b, i))]
ArrScale(fmt, a, k) == [i \in 1..Len(a) |-> FMul(fmt, a[i], Num(k))]
ArrShift(fmt, a, k) == [i \in 1..Len(a) |-> FAdd(fmt, a[i], Num(k))]

\* .type(torch.float32) of an array
ArrCast(fmt, a) == [i \in 1..Len(a) |-> Cast(fmt, a[i])]

(***************************************************************************)
(* The scalers.  The type of an array says what it is: a numpy array of   *)
(* dtype float64, float32 or float16, or a torch tensor of dtype float32.  *)
(* (A numpy array of integers is promoted to float64 by the first          *)
(* operation with a float64 array and by every division.)  A scaler object *)
(* holds the attributes its class assigns; "args" remembers the two arrays *)
(* its constructor was given and their type, and "type" is the type of the *)
(* attributes now: that of the arrays given, "Tensor" once an              *)
(* inverse_transform of a torch tensor has replaced them.                  *)
(***************************************************************************)
ScalerKinds ==
    {"NScaler", "StandardScaler", "MinMax01Scaler", "MinMax11Scaler", "ColumnMinMaxScaler"}

Types == {"float64", "float32", "float16", "Tensor"}

\* isinstance(data, np.ndarray) / isinstance(data, torch.Tensor)
Lib(type) == IF type = "Tensor" THEN "Tensor" ELSE "ndarray"

\* the dtype of the entries
DtypeOf(type) == IF type = "Tensor" THEN "float32" ELSE type

\* the format a dtype computes in
FormatOf(type) ==
    CASE DtypeOf(type) = "float64" -> Float64
      [] DtypeOf(type) = "float32" -> Float32
      [] DtypeOf(type) = "float16" -> Float16

\* the dtype numpy gives the result of an operation on arrays of two dtypes
Promote(t1, t2) ==
    IF "float64" \in {t1, t2} THEN "float64"
    ELSE IF "float32" \in {t1, t2} THEN "float32"
    ELSE "float16"

\* The data arrays of a type: 1 or MaxVal in every entry, and 0 in an array
\* of width 1.
Data(type) ==
    UNION {[1..w -> {Cast(FormatOf(type), Num(v)) :
                     v \in IF w = 1 THEN {0, 1, MaxVal} ELSE {1, MaxVal}}] : w \in Widths}

\* The arrays of a type a scaler is constructed from: MidParam or MaxParam
\* in every entry, and 0 in an array of width 1.
ParamArrays(w, type) ==
    [1..w -> {Cast(FormatOf(type), Num(v)) :
              v \in IF w = 1 THEN {0, MidParam, MaxParam} ELSE {MidParam, MaxParam}}]

NoArr == <<>>

\* ColumnMinMaxScaler.__init__: min_max = max - min; min_max[min_max == 0] = 1
ColumnMinMax(fmt, min, max) ==
    Only({[i \in 1..Len(d) |-> IF IsZero(d[i]) THEN Num(1) ELSE d[i]] :
          d \in {ArrSub(fmt, max, min)}})

NewScaler(kind, a, b, type) ==
    [kind |-> kind, args |-> <<a, b, type>>, type |-> type,
     mean |-> IF kind = "StandardScaler" THEN a ELSE NoArr,
     std |-> IF kind = "StandardScaler" THEN b ELSE NoArr,
     min |-> IF kind \in {"MinMax01Scaler", "MinMax11Scaler", "ColumnMinMaxScaler"}
             THEN a ELSE NoArr,
     max |-> IF kind \in {"MinMax01Scaler", "MinMax11Scaler"} THEN b ELSE NoArr,
     min_max |-> IF kind = "ColumnMinMaxScaler" THEN ColumnMinMax(FormatOf(type), a, b)
                 ELSE NoArr]

Raised == [ok |-> FALSE, value |-> NoArr]
Returned(v) == [ok |-> TRUE, value |-> v]

\* (data - lo) / span, raising when the operands do not broadcast
Scale01(fmt, data, lo, span) ==
    IF Fits(data, lo) /\ Fits(ArrSub(fmt, data, lo), span)
    THEN Returned(ArrDiv(fmt, ArrSub(fmt, data, lo), span))
    ELSE Raised

\* data * span + lo
Unscale01(fmt, data, lo, span) ==
    IF Fits(data, span) /\ Fits(ArrMul(fmt, data, span), lo)
    THEN Returned(ArrAdd(fmt, ArrMul(fmt, data, span), lo))
    ELSE Raised

\* max - min of a min-max scaler, <<>> when the two do not broadcast
Span(fmt, sc) == IF Fits(sc.max, sc.min) THEN ArrSub(fmt, sc.max, sc.min) ELSE NoArr

\* np.sum(self.max == 0) > 0, the condition MinMax01Scaler.transform
\* evaluates first: np.sum raises TypeError on the tensor that self.max == 0
\* is when self.max is a tensor, given as one or made one by
\* inverse_transform; on an array it counts the zeros, and both of its
\* branches return the same expression.
SumRaises(sc) == sc.type = "Tensor"

\* the format of the result of an operation on operands of two formats
Wider(f1, f2) == IF f1.p >= f2.p THEN f1 ELSE f2

\* The expression transform returns, on data of format fd and attributes
\* of format fa.  Every operation is computed in the format its own
\* operands promote to: self.max - self.min in that of the attributes,
\* what involves data in the wider of the two; the scalars 2.0 and 1.0
\* leave the format of the array they meet.
transform_in(fd, fa, sc, data) ==
    CASE sc.kind = "StandardScaler" -> Scale01(Wider(fd, fa), data, sc.mean, sc.std)
      [] sc.kind = "MinMax01Scaler" ->
            IF SumRaises(sc) THEN Raised
            ELSE IF Fits(sc.max, sc.min)
            THEN Scale01(Wider(fd, fa), data, sc.min, Span(fa, sc))
            ELSE Raised
      [] sc.kind = "MinMax11Scaler" ->
            IF Fits(sc.max, sc.min)
            THEN Only({IF r.ok
                       THEN Returned(ArrShift(Wider(fd, fa),
                                              ArrScale(Wider(fd, fa), r.value, 2), -1))
                       ELSE Raised :
                       r \in {Scale01(Wider(fd, fa), data, sc.min, Span(fa, sc))}})
            ELSE Raised
      [] sc.kind = "ColumnMinMaxScaler" -> Scale01(Wider(fd, fa), data, sc.min, sc.min_max)

Halve(fmt, a) == [i \in 1..Len(a) |-> FDiv(fmt, a[i], Num(2))]

\* The expression inverse_transform returns, on data of format fd and
\* attributes of format fa: (data + 1.0) / 2.0 is computed in the format of
\* the data, self.max - self.min in that of the attributes, the rest in the
\* wider of the two.
inverse_in(fd, fa, sc, data) ==
    CASE sc.kind = "StandardScaler" -> Unscale01(Wider(fd, fa), data, sc.mean, sc.std)
      [] sc.kind = "MinMax01Scaler" ->
            IF Fits(sc.max, sc.min)
            THEN Unscale01(Wider(fd, fa), data, sc.min, Span(fa, sc))
            ELSE Raised
      [] sc.kind = "MinMax11Scaler" ->
            IF Fits(sc.max, sc.min)
            THEN Unscale01(Wider(fd, fa), Halve(fd, ArrShift(fd, data, 1)), sc.min,
                           Span(fa, sc))
            ELSE Raised
      [] sc.kind = "ColumnMinMaxScaler" ->
            Unscale01(Wider(fd, fa), data, sc.min, sc.min_max)

\* The attributes as float32 tensors, as the tensor branch of each class's
\* inverse_transform assigns them: torch.from_numpy(...).type(torch.float32)
AsTensors(sc) ==
    CASE sc.kind = "StandardScaler" ->
            [sc EXCEPT !.type = "Tensor",
                       !.std = ArrCast(Float32, @), !.mean = ArrCast(Float32, @)]
      [] sc.kind \in {"MinMax01Scaler", "MinMax11Scaler"} ->
            [sc EXCEPT !.type = "Tensor",
                       !.min = ArrCast(Float32, @), !.max = ArrCast(Float32, @)]
      [] sc.kind = "ColumnMinMaxScaler" ->
            [sc EXCEPT !.type = "Tensor",
                       !.min_max = ArrCast(Float32, @), !.min = ArrCast(Float32, @)]
      [] OTHER -> sc

\* The attributes as torch reads them when it carries out a mixed
\* expression: their values in float32, the objects themselves unchanged.
InFloat32(sc) == [AsTensors(sc) EXCEPT !.type = sc.type]

\* What an expression of a numpy array and a torch tensor may do.  It
\* depends on the versions of the two libraries: it raises TypeError, or
\* numpy carries it out on the tensor's array, promoting operation by
\* operation, or torch in float32 on the array's tensor.
Mixed(by_numpy, by_torch) == {Raised, by_numpy, by_torch}

\* The type of what a call returns: the dtype two arrays promote to, a
\* tensor for tensors, unknown ("either") for an array and a tensor.
ResultType(sc, type) ==
    IF sc.kind = "NScaler" THEN type
    ELSE IF Lib(type) # Lib(sc.type) THEN "either"
    ELSE IF type = "Tensor" THEN "Tensor"
    ELSE Promote(type, sc.type)

\* The outcomes of transform(data) for data of the given type.
transform(sc, data, type) ==
    IF sc.kind = "NScaler" THEN {Returned(data)}
    ELSE IF Lib(type) = Lib(sc.type)
    THEN {transform_in(FormatOf(type), FormatOf(sc.type), sc, data)}
    ELSE Mixed(transform_in(FormatOf(type), FormatOf(sc.type), sc, data),
               transform_in(Float32, Float32, InFloat32(sc), ArrCast(Float32, data)))

\* mean[..., : data.shape[-1]]
SliceTo(arr, w) == SubSeq(arr, 1, IF w < Len(arr) THEN w ELSE Len(arr))

\* The scaler object that inverse_transform leaves behind.  With a tensor
\* as data and numpy attributes every class but NScaler replaces its
\* attributes by float32 tensors; with a numpy array as data and numpy
\* attributes StandardScaler assigns the sliced arrays to self.mean and
\* self.std when the last dimensions differ.
AfterInverse(sc, data, type) ==
    IF sc.kind = "NScaler" THEN sc
    ELSE IF type = "Tensor" /\ Lib(sc.type) = "ndarray" THEN AsTensors(sc)
    ELSE IF /\ sc.kind = "StandardScaler" /\ Lib(type) = "ndarray" /\ Lib(sc.type) = "ndarray"
            /\ Len(data) # Len(sc.mean)
    THEN [sc EXCEPT !.mean = SliceTo(sc.mean, Len(data)),
                    !.std = SliceTo(sc.std, Len(data))]
    ELSE sc

\* The outcomes of inverse_transform(data) for data of the given type.
inverse_transform(sc, data, type) ==
    IF sc.kind = "NScaler" THEN {Returned(data)}
    ELSE Only({IF Lib(type) = Lib(now.type)
               THEN {inverse_in(FormatOf(type), FormatOf(now.type), now, data)}
               ELSE Mixed(inverse_in(FormatOf(type), FormatOf(now.type), now, data),
                          inverse_in(Float32, Float32, AsTensors(now),
                                     ArrCast(Float32, data))) :
               now \in {AfterInverse(sc, data, type)}})

(***************************************************************************)
(* one_hot_by_column and minmax_by_column.  A 2D array is a record of its  *)
(* shape and its rows; the entries of the input are integers.              *)
(***************************************************************************)
Tables ==
    UNION {[rows : {r}, cols : {c}, cell : [1..r -> [1..c -> Entries]]] :
           <<r, c>> \in (0..MaxRows) \X (1..MaxCols)}

SeqMax(col) == CHOOSE m \in {col[r] : r \in 1..Len(col)} : \A r \in 1..Len(col) : col[r] <= m
SeqMin(col) == CHOOSE m \in {col[r] : r \in 1..Len(col)} : \A r \in 1..Len(col) : m <= col[r]

\* data[:, i]
Column(data, i) == [r \in 1..data.rows |-> data.cell[r][i]]

\* np.hstack((a, b)) of two 2D blocks with the same number of rows
HStack(a, b) == [r \in 1..Len(a) |-> a[r] \o b[r]]

NoBlock == <<>>
ColFail == [ok |-> FALSE, value |-> NoBlock]

\* The offset taken from the value itself, the column minimum forgotten
OneHotIndexNoMin(v, min) == v

\* The offset of the 1 in a row of a one-hot block: column - min
OneHotIndex(v, min) == v - min

\* zero_matrix = np.zeros((len, max - min + 1)); zero_matrix[arange(len), column - min] = 1
OneHotBlock(column) ==
    LET max == SeqMax(column)
        min == SeqMin(column)
        width == max - min + 1
    IN  [r \in 1..Len(column) |->
            [j \in 1..width |-> IF j - 1 = OneHotIndex(column[r], min) THEN 1 ELSE 0]]

\* Whether the fancy-index assignment stays inside the block (numpy wraps a
\* negative index once and raises IndexError beyond that).
OneHotInRange(column) ==
    LET width == SeqMax(column) - SeqMin(column) + 1
    IN  \A r \in 1..Len(column) :
            LET k == OneHotIndex(column[r], SeqMin(column)) IN k < width /\ k >= -width

RECURSIVE one_hot_loop(_, _)
\* "encoded" after the columns 0 .. n-1
one_hot_loop(data, n) ==
    IF n = 1 THEN OneHotBlock(Column(data, 1))
    ELSE HStack(one_hot_loop(data, n - 1), OneHotBlock(Column(data, n)))

one_hot_by_column(data) ==
    IF data.rows = 0 THEN ColFail                   \* column.max() of an empty column
    ELSE IF \E i \in 1..data.cols : ~OneHotInRange(Column(data, i)) THEN ColFail
    ELSE [ok |-> TRUE, value |-> one_hot_loop(data, data.cols)]

\* column = (column - min) / (max - min); column[:, np.newaxis]
MinMaxBlock(column) ==
    LET max == SeqMax(column)
        min == SeqMin(column)
    IN  [r \in 1..Len(column) |-> <<FDiv(Float64, Num(column[r] - min), Num(max - min))>>]

RECURSIVE minmax_loop(_, _)
\* "_normalized" after the columns 0 .. n-1
minmax_loop(data, n) ==
    IF n = 1 THEN MinMaxBlock(Column(data, 1))
    ELSE HStack(minmax_loop(data, n - 1), MinMaxBlock(Column(data, n)))

minmax_by_column(data) ==
    IF data.rows = 0 THEN ColFail                   \* column.max() of an empty column
    ELSE [ok |-> TRUE, value |-> minmax_loop(data, data.cols)]

(***************************************************************************)
(* LSTM_DSTGCRN.get_weights and LSTM_DSTGCRN.set_weights.  The parameters  *)
(* of a model are a sequence in registration order, the order in which     *)
(* both named_parameters() and parameters() yield them: a module's own     *)
(* parameters first, then those of its submodules in the order __init__    *)
(* assigned them.  Each parameter has its name, its data (a token standing *)
(* for the tensor's contents) and its requires_grad mark.  Exported arrays *)
(* have the dtype of the parameter they were read from, so the cast of     *)
(* line 391 keeps their contents.                                          *)
(***************************************************************************)
NodeLayers == 1     \* args.num_layers_node
MaxFrozen == 2      \* at most MaxFrozen parameters are marked non-trainable
MaxSets == 1        \* set_weights calls in one behaviour

WeightArgs ==
    [TNE : BOOLEAN, dynamic_embed : BOOLEAN, num_layers : 1..MaxLayers,
     gru_layer : BOOLEAN, lstm_layer : BOOLEAN, attention_layer : BOOLEAN]

Prefixed(prefix, names) == [i \in 1..Len(names) |-> prefix \o names[i]]

\* nn.Linear and nn.Conv2d (bias=True)
LinearParams == <<"weight", "bias">>

\* One layer of nn.GRU / nn.LSTM
RnnLayerParams(k) ==
    <<"weight_ih_l" \o ToString(k), "weight_hh_l" \o ToString(k),
      "bias_ih_l" \o ToString(k), "bias_hh_l" \o ToString(k)>>

RECURSIVE RnnParams(_)
RnnParams(n) == IF n = 0 THEN <<>> ELSE RnnParams(n - 1) \o RnnLayerParams(n - 1)

\* torch.nn.MultiheadAttention(embed_dim, num_heads)
AttentionParams == <<"in_proj_weight", "in_proj_bias", "out_proj.weight", "out_proj.bias">>

\* DynamicEmbedding.__init__
DynamicEmbeddingParams(args) ==
    (IF args.gru_layer \/ args.lstm_layer
     THEN Prefixed("sequential_model.", RnnParams(NodeLayers)) \o Prefixed("fc.", LinearParams)
     ELSE Prefixed("fc1.", LinearParams) \o Prefixed("fc2.", LinearParams))
    \o (IF args.attention_layer THEN Prefixed("self_attn.", AttentionParams) ELSE <<>>)

\* AVWGCN.__init__
AVWGCNParams ==
    <<"weights_pool", "bias_pool">>
    \o Prefixed("fc.fc1.", LinearParams) \o Prefixed("fc.fc2.", LinearParams)
    \o Prefixed("fc.fc3.", LinearParams)

\* AGCRNCell.__init__
AGCRNCellParams == Prefixed("gate.", AVWGCNParams) \o Prefixed("update.", AVWGCNParams)

RECURSIVE AVWDCRNNParams(_)
\* AVWDCRNN.__init__: the cells 0 .. n-1 of self.dcrnn_cells
AVWDCRNNParams(n) ==
    IF n = 0 THEN <<>>
    ELSE AVWDCRNNParams(n - 1)
         \o Prefixed("dcrnn_cells." \o ToString(n - 1) \o ".", AGCRNCellParams)

\* The names self.named_parameters() yields for a model built from args.
named_parameters(args) ==
    (IF args.TNE \/ ~args.dynamic_embed THEN <<"node_embeddings">> ELSE <<>>)
    \o (IF ~args.TNE /\ args.dynamic_embed
        THEN Prefixed("dynamic_embedding.", DynamicEmbeddingParams(args)) ELSE <<>>)
    \o Prefixed("encoder.", AVWDCRNNParams(args.num_layers))
    \o Prefixed("end_conv.", LinearParams)

\* The contents a parameter is created with, and the i-th array of a list
\* handed to set_weights from outside.
InitData(i) == <<"init", i>>
GivenData(i) == <<"given", i>>

\* nn.Parameter and the layers create their tensors with requires_grad=True.
NewParams(args) ==
    [i \in 1..Len(named_parameters(args)) |->
        [name |-> named_parameters(args)[i], data |-> InitData(i), requires_grad |-> TRUE]]

\* The lists get_weights builds: the loop of lines 383-386 appends the data
\* and the name of each parameter that requires grad, in order.
RECURSIVE get_weights_loop(_, _)
get_weights_loop(ps, n) ==
    IF n = 0 THEN [weights |-> <<>>, names |-> <<>>]
    ELSE Only({IF ps[n].requires_grad
               THEN [weights |-> Append(acc.weights, ps[n].data),
                     names |-> Append(acc.names, ps[n].name)]
               ELSE acc : acc \in {get_weights_loop(ps, n - 1)}})

get_weights(ps) == get_weights_loop(ps, Len(ps))

\* zip(self.parameters(), weights) pairs the i-th parameter of the model
\* with the i-th weight and stops at the shorter of the two.
set_weights(ps, weights) ==
    [i \in 1..Len(ps) |->
        IF i <= Len(weights) THEN [ps[i] EXCEPT !.data = weights[i]] ELSE ps[i]]

\* The lists a caller hands to set_weights: one array per exported name, or
\* one array per parameter of the model.
WeightLists(ps) ==
    {[i \in 1..n |-> GivenData(i)] : n \in {Len(get_weights(ps).names), Len(ps)}}

Frozen(ps) == {i \in 1..Len(ps) : ~ps[i].requires_grad}

NoWeightsOut ==
    [op |-> "none", before |-> <<>>, weights |-> <<>>, names |-> <<>>, sets |-> 0]

(***************************************************************************)
(* Idle values, continued.                                                 *)
(***************************************************************************)
NoScalerOut == [op |-> "none", arg |-> NoArr, type |-> "none", ok |-> FALSE, value |-> NoArr]
NoTable == [rows |-> 0, cols |-> 1, cell |-> <<>>]
NoColOut == [op |-> "none", ok |-> FALSE, value |-> NoBlock]

NoBatch == [value |-> NoArr, type |-> "float64"]
IdleScaler ==
    /\ scaler = NewScaler("NScaler", NoArr, NoArr, "float64")
    /\ batch = NoBatch /\ scalerOut = NoScalerOut
IdleTable == table = NoTable /\ colOut = NoColOut
IdleWeights == params = <<>> /\ weightsOut = NoWeightsOut

(***************************************************************************)
(* The models specification.                                               *)
(***************************************************************************)
InitModels ==
    /\ dynamic_embed = "None"
    /\ IdleModels /\ IdleGcn /\ IdleScaler /\ IdleTable /\ IdleWeights

NextModels ==
    \/ \E id \in ModelIds, args \in Args : Construct(id, args)
    \/ \E id \in ModelIds : Forward(id)

SpecModels == InitModels /\ [][NextModels]_vars

(***************************************************************************)
(* The graph-convolution specification: one AVWGCN (the gate of the first  *)
(* cell) called directly with batches of varying size and node count,      *)
(* while model constructions elsewhere reassign the global.                *)
(***************************************************************************)
GcnDimIn == InputDim + RnnUnits
GcnDimOut == 2 * RnnUnits

InitGcn ==
    /\ dynamic_embed \in {"None", "True", "False"}
    /\ gcn \in [cheb_k : 1..MaxCheb, cached : {0}]
    /\ gcnCall = NoGcnCall
    /\ IdleModels /\ IdleScaler /\ IdleTable /\ IdleWeights

\* The node embeddings a caller passes in each mode.
GcnEmbShape(flag, B, N) == IF Truthy(flag) THEN <<B, N, EmbedDim>> ELSE <<1, N, EmbedDim>>

GcnForward(B, N) ==
    LET res == AVWGCN_forward(dynamic_embed, gcn.cheb_k, GcnDimIn, GcnDimOut, gcn.cached,
                              <<B, N, GcnDimIn>>, GcnEmbShape(dynamic_embed, B, N))
    IN  /\ gcnCall' = [called |-> TRUE, flag |-> dynamic_embed, B |-> B, N |-> N, res |-> res]
        /\ gcn' = [gcn EXCEPT !.cached = res.cached]
        /\ UNCHANGED <<dynamic_embed, modelVars, scalerVars, tableVars, weightVars>>

\* LSTM_DSTGCRN.__init__ run elsewhere in the process: global dynamic_embed
GcnSetGlobal(b) ==
    /\ dynamic_embed # PyBool(b)
    /\ dynamic_embed' = PyBool(b)
    /\ UNCHANGED <<gcnVars, modelVars, scalerVars, tableVars, weightVars>>

NextGcn ==
    \/ \E B \in 1..BatchSize, N \in 1..MaxNodes : GcnForward(B, N)
    \/ \E b \in BOOLEAN : GcnSetGlobal(b)

SpecGcn == InitGcn /\ [][NextGcn]_vars

(***************************************************************************)
(* The scaler specification: a scaler constructed from two arrays of one   *)
(* type and one width, a data array of any type, and any sequence of       *)
(* transform and inverse_transform calls on the data, among them           *)
(* inverse_transform of what transform returned.  "type" is the type of    *)
(* what the call returned.                                                 *)
(***************************************************************************)
InitScaler ==
    /\ \/ scaler = NewScaler("NScaler", NoArr, NoArr, "float64")
       \/ \E kind \in ScalerKinds \ {"NScaler"}, w \in Widths, type \in Types :
             \E a \in ParamArrays(w, type), b \in ParamArrays(w, type) :
                scaler = NewScaler(kind, a, b, type)
    /\ \E type \in Types : \E x \in Data(type) : batch = [value |-> x, type |-> type]
    /\ scalerOut = NoScalerOut
    /\ dynamic_embed = "None"
    /\ IdleModels /\ IdleGcn /\ IdleTable /\ IdleWeights

\* scaler.transform(data)
Transform ==
    /\ \E r \in transform(scaler, batch.value, batch.type) :
          scalerOut' = [op |-> "transform", arg |-> batch.value,
                        type |-> ResultType(scaler, batch.type),
                        ok |-> r.ok, value |-> r.value]
    /\ UNCHANGED <<scaler, batch, dynamic_embed, gcnVars, modelVars, tableVars, weightVars>>

\* scaler.inverse_transform(data)
InverseTransform ==
    /\ \E r \in inverse_transform(scaler, batch.value, batch.type) :
          scalerOut' = [op |-> "inverse_transform", arg |-> batch.value,
                        type |-> ResultType(AfterInverse(scaler, batch.value, batch.type),
                                            batch.type),
                        ok |-> r.ok, value |-> r.value]
    /\ scaler' = AfterInverse(scaler, batch.value, batch.type)
    /\ UNCHANGED <<batch, dynamic_embed, gcnVars, modelVars, tableVars, weightVars>>

\* scaler.inverse_transform(scaler.transform(data)): the second half of a
\* round trip, taken when what transform returned has a known type; "arg"
\* keeps the data that transform was given.
InverseOfTransformed ==
    /\ scalerOut.op = "transform" /\ scalerOut.ok /\ scalerOut.type \in Types
    /\ \E r \in inverse_transform(scaler, scalerOut.value, scalerOut.type) :
          scalerOut' = [op |-> "round_trip", arg |-> scalerOut.arg,
                        type |-> ResultType(AfterInverse(scaler, scalerOut.value,
                                                         scalerOut.type), scalerOut.type),
                        ok |-> r.ok, value |-> r.value]
    /\ scaler' = AfterInverse(scaler, scalerOut.value, scalerOut.type)
    /\ UNCHANGED <<batch, dynamic_embed, gcnVars, modelVars, tableVars, weightVars>>

NextScaler ==
    \/ Transform
    \/ InverseTransform
    \/ InverseOfTransformed

SpecScaler == InitScaler /\ [][NextScaler]_vars

(***************************************************************************)
(* The column-helper specification: a 2D integer array, and calls of the   *)
(* two helpers on it.                                                      *)
(***************************************************************************)
InitTable ==
    /\ table \in Tables
    /\ colOut = NoColOut
    /\ dynamic_embed = "None"
    /\ IdleModels /\ IdleGcn /\ IdleScaler /\ IdleWeights

OneHot ==
    LET r == one_hot_by_column(table)
    IN  /\ colOut' = [op |-> "one_hot_by_column", ok |-> r.ok, value |-> r.value]
        /\ UNCHANGED <<table, dynamic_embed, gcnVars, modelVars, scalerVars, weightVars>>

MinMax ==
    LET r == minmax_by_column(table)
    IN  /\ colOut' = [op |-> "minmax_by_column", ok |-> r.ok, value |-> r.value]
        /\ UNCHANGED <<table, dynamic_embed, gcnVars, modelVars, scalerVars, weightVars>>

NextTable == OneHot \/ MinMax

SpecTable == InitTable /\ [][NextTable]_vars

(***************************************************************************)
(* The parameter-exchange specification: one model whose parameters the    *)
(* caller may freeze or unfreeze, and calls of get_weights and             *)
(* set_weights on it.                                                      *)
(***************************************************************************)
InitWeights ==
    /\ \E args \in WeightArgs : params = NewParams(args)
    /\ weightsOut = NoWeightsOut
    /\ dynamic_embed = "None"
    /\ IdleModels /\ IdleGcn /\ IdleScaler /\ IdleTable

\* param.requires_grad = b, done by the caller before the exchange starts.
SetRequiresGrad(i, b) ==
    /\ weightsOut.op = "none"
    /\ i \in 1..Len(params)
    /\ params[i].requires_grad # b
    /\ b \/ Cardinality(Frozen(params)) < MaxFrozen
    /\ params' = [params EXCEPT ![i].requires_grad = b]
    /\ UNCHANGED <<weightsOut, dynamic_embed, gcnVars, modelVars, scalerVars, tableVars>>

GetWeights ==
    /\ weightsOut' = [op |-> "get_weights", before |-> params,
                      weights |-> get_weights(params).weights,
                      names |-> get_weights(params).names, sets |-> weightsOut.sets]
    /\ UNCHANGED <<params, dynamic_embed, gcnVars, modelVars, scalerVars, tableVars>>

\* set_weights(weights) with a list the caller supplies; names are the names
\* get_weights would export in the state of the call.
SetWeights(weights) ==
    /\ weightsOut.sets < MaxSets
    /\ params' = set_weights(params, weights)
    /\ weightsOut' = [op |-> "set_weights", before |-> params, weights |-> weights,
                      names |-> get_weights(params).names, sets |-> weightsOut.sets + 1]
    /\ UNCHANGED <<dynamic_embed, gcnVars, modelVars, scalerVars, tableVars>>

\* set_weights(get_weights()[0])
SetExportedWeights ==
    /\ weightsOut.sets < MaxSets
    /\ params' = set_weights(params, get_weights(params).weights)
    /\ weightsOut' = [op |-> "round_trip", before |-> params,
                      weights |-> get_weights(params).weights,
                      names |-> get_weights(params).names, sets |-> weightsOut.sets + 1]
    /\ UNCHANGED <<dynamic_embed, gcnVars, modelVars, scalerVars, tableVars>>

NextWeights ==
    \/ \E i \in 1..Len(params), b \in BOOLEAN : SetRequiresGrad(i, b)
    \/ GetWeights
    \/ \E weights \in WeightLists(params) : SetWeights(weights)
    \/ SetExportedWeights

SpecWeights == InitWeights /\ [][NextWeights]_vars

(***************************************************************************)
(* What the encoder is expected to compute, stated independently of the    *)
(* loops: the state of layer i after timestep t.                           *)
(***************************************************************************)
ExpectedEmb(flag, t) == IF Truthy(flag) THEN <<"emb_t", t>> ELSE <<"emb_all", 0>>

RECURSIVE ExpectedState(_, _, _)
ExpectedState(flag, i, t) ==
    IF t < 0 THEN <<"init", i>>
    ELSE CellTerm(i,
                  IF i = 0 THEN <<"x", t>> ELSE ExpectedState(flag, i - 1, t),
                  ExpectedState(flag, i, t - 1),
                  ExpectedEmb(flag, t))

ExpectedAdj(flag, i, t) ==
    AdjTerm(i,
            IF i = 0 THEN <<"x", t>> ELSE ExpectedState(flag, i - 1, t),
            ExpectedState(flag, i, t - 1),
            ExpectedEmb(flag, t))

FwdArgs == models[fwd.model].args

(***************************************************************************)
(* C1.  As stated: LSTM_DSTGCRN.forward returns one adjacency entry for    *)
(* each (layer, timestep) pair, L*T entries in all.  The list is reset at  *)
(* the top of every layer, so this fails as soon as L > 1.                 *)
(***************************************************************************)
C1_EntryPerLayerAndTimestep ==
    (fwd.called /\ fwd.ok) =>
        /\ Len(fwd.enc.adjmatrices) = FwdArgs.num_layers * FwdArgs.lookback
        /\ \A i \in 0..FwdArgs.num_layers - 1, t \in 0..FwdArgs.lookback - 1 :
              \E k \in 1..Len(fwd.enc.adjmatrices) :
                  fwd.enc.adjmatrices[k].term = ExpectedAdj(fwd.flag, i, t)

\* C1, amended: a forward call that returns hands back exactly T entries, the
\* k-th being what the LAST layer's cell returned as adjmatrix at timestep
\* k-1; the stacked tensor has T along dimension 1.
C1_LastLayerPerTimestep ==
    (fwd.called /\ fwd.ok) =>
        /\ Len(fwd.enc.adjmatrices) = FwdArgs.lookback
        /\ fwd.adjmatrices.shape[2] = FwdArgs.lookback
        /\ \A k \in 1..FwdArgs.lookback :
              fwd.enc.adjmatrices[k].term
                  = ExpectedAdj(fwd.flag, FwdArgs.num_layers - 1, k - 1)

\* A forward call returned on a model with two layers and two timesteps.
C1_Witness ==
    /\ fwd.called /\ fwd.ok
    /\ FwdArgs.num_layers = 2 /\ FwdArgs.lookback = 2
    /\ Len(fwd.enc.adjmatrices) = 2

(***************************************************************************)
(* C2.  AVWDCRNN.forward: layer i starts from init_state[i]; at timestep t *)
(* its cell receives the state it produced at t-1; layer 0 reads x[:, t]   *)
(* and layer i > 0 reads the state layer i-1 produced at t.  It returns    *)
(* the last layer's T states and num_layers final states, entry i being    *)
(* layer i's state after timestep T-1.                                     *)
(***************************************************************************)
C2_EncoderOrder ==
    (fwd.called /\ fwd.enc.ok) =>
        LET L == FwdArgs.num_layers
            T == FwdArgs.lookback
        IN  /\ Len(fwd.enc.current_inputs) = T
            /\ \A t \in 1..T :
                  fwd.enc.current_inputs[t].term = ExpectedState(fwd.flag, L - 1, t - 1)
            /\ Len(fwd.enc.output_hidden) = L
            /\ \A i \in 1..L :
                  fwd.enc.output_hidden[i].term = ExpectedState(fwd.flag, i - 1, T - 1)

\* The encoder returned for two stacked layers over two timesteps.
C2_Witness ==
    /\ fwd.called /\ fwd.enc.ok
    /\ FwdArgs.num_layers = 2 /\ FwdArgs.lookback = 2
    /\ Len(fwd.enc.output_hidden) = 2

(***************************************************************************)
(* C3.  As stated: a forward call on a model built with TNE false uses     *)
(* dynamic node embeddings if and only if that model's own                 *)
(* args.dynamic_embed was true, and static learned embeddings otherwise,   *)
(* whatever other models were constructed in between.  The switch is a     *)
(* module global that every construction overwrites.                       *)
(***************************************************************************)
C3_OwnSettingDecides ==
    (fwd.called /\ ~FwdArgs.TNE) =>
        /\ (fwd.embedding = "dynamic") <=> FwdArgs.dynamic_embed
        /\ (fwd.embedding = "static") <=> ~FwdArgs.dynamic_embed
        /\ Truthy(fwd.flag) <=> FwdArgs.dynamic_embed

(***************************************************************************)
(* C4.  Each scaler is a round trip when applied before and after model    *)
(* consumption: for x whose last dimension matches the scaler's            *)
(* parameters, with std # 0 (StandardScaler) or max # min (min-max         *)
(* scalers), inverse_transform(transform(x)) = x.  The calls looked at are *)
(* those whose data and attributes belong to one library, arrays or        *)
(* tensors, and "= x" is read up to the rounding of the dtype the round    *)
(* trip is computed in, which no floating-point round trip escapes.        *)
(***************************************************************************)
ScalerWidthIs(w) ==
    CASE scaler.kind = "NScaler" -> TRUE
      [] scaler.kind = "StandardScaler" -> Len(scaler.mean) = w /\ Len(scaler.std) = w
      [] scaler.kind = "ColumnMinMaxScaler" -> Len(scaler.min) = w
      [] OTHER -> Len(scaler.min) = w /\ Len(scaler.max) = w

ScalerParamsOk ==
    CASE scaler.kind = "StandardScaler" ->
            \A i \in 1..Len(scaler.std) : ~IsZero(scaler.std[i])
      [] scaler.kind \in {"MinMax01Scaler", "MinMax11Scaler"} ->
            \A i \in 1..Len(scaler.max) : ~FEq(scaler.max[i], scaler.min[i])
      [] OTHER -> TRUE

FAbs(a) == IF a.c = "nan" THEN a ELSE [a EXCEPT !.s = 1]

\* the offset and the factor of the scaler in column i
OffsetAt(i) == IF scaler.kind = "StandardScaler" THEN scaler.mean[i] ELSE scaler.min[i]
FactorAt(i) ==
    CASE scaler.kind = "StandardScaler" -> scaler.std[i]
      [] scaler.kind = "ColumnMinMaxScaler" -> scaler.min_max[i]
      [] OTHER -> FSub(FormatOf(scaler.type), scaler.max[i], scaler.min[i])

\* 2^(3 - p) * (|x| + |offset| + |factor|) for a format of p bits: eight
\* roundings of the largest number the round trip of x meets
Tolerance(fmt, i) ==
    FMul(Float64, [c |-> "fin", s |-> 1, m |-> <<1>>, e |-> 3 - fmt.p],
         FAdd(Float64, FAbs(scalerOut.arg[i]),
              FAdd(Float64, FAbs(OffsetAt(i)), FAbs(FactorAt(i)))))

\* what was returned is x: the same array from NScaler, x up to Tolerance
\* in every entry from the others
ReturnedX ==
    /\ scalerOut.ok
    /\ Len(scalerOut.value) = Len(scalerOut.arg)
    /\ scaler.kind = "NScaler" => scalerOut.value = scalerOut.arg
    /\ scaler.kind # "NScaler" =>
          \A i \in 1..Len(scalerOut.arg) :
              FLeq(FAbs(FSub(Float64, scalerOut.value[i], scalerOut.arg[i])),
                   Tolerance(FormatOf(scalerOut.type), i))

\* Every inverse_transform(transform(x)) that was computed returned x.
RoundTripsReturnX ==
    (scalerOut.op = "round_trip" /\ ScalerWidthIs(Len(scalerOut.arg)) /\ ScalerParamsOk)
        => ReturnedX

\* C4: on data and attributes of one library, transform(x) returns, and
\* inverse_transform of what it returned returns x.
C4_RoundTrip ==
    /\ (/\ scalerOut.op = "transform" /\ scalerOut.type # "either"
        /\ ScalerWidthIs(Len(scalerOut.arg)) /\ ScalerParamsOk) => scalerOut.ok
    /\ RoundTripsReturnX

(***************************************************************************)
(* C5.  As stated: AVWGCN.forward mixes, in both modes and for every       *)
(* cheb_k >= 1, exactly cheb_k support terms T_0 .. T_{cheb_k-1} with      *)
(* T_0 = I, T_1 = L and T_k = 2 L T_{k-1} - T_{k-2}.                       *)
(***************************************************************************)
RECURSIVE ChebT(_)
ChebT(k) ==
    IF k = 0 THEN TermI
    ELSE IF k = 1 THEN TermL
    ELSE ChebStep(TermL, ChebT(k - 1), ChebT(k - 2))

C5_ChebyshevOfOrderK ==
    (gcnCall.called /\ gcnCall.res.ok) =>
        /\ Len(gcnCall.res.terms) = gcn.cheb_k
        /\ \A k \in 1..Len(gcnCall.res.terms) : gcnCall.res.terms[k] = ChebT(k - 1)

(***************************************************************************)
(* C6.  As stated: in both modes and for every N >= 1 the second value     *)
(* AVWGCN.forward returns is the per-batch N x N normalized adjacency (the *)
(* first-order support) of that call, never a slice of the convolved       *)
(* features, and the call does not fail.  Calls whose cached identity is   *)
(* stale (C7) are left out.                                                *)
(***************************************************************************)
C6_SecondValueIsAdjacency ==
    (gcnCall.called /\ (Truthy(gcnCall.flag) => gcnCall.res.identN = gcnCall.N)) =>
        /\ gcnCall.res.ok
        /\ gcnCall.res.adj.kind = "support"
        /\ gcnCall.res.adj.term = TermL
        /\ gcnCall.res.adj.shape = <<gcnCall.B, gcnCall.N, gcnCall.N>>

(***************************************************************************)
(* C7.  As stated: in dynamic mode the identity matrix used by a call is   *)
(* N x N for the N of that call's node_embeddings, whatever N the earlier  *)
(* calls on the same AVWGCN had.                                           *)
(***************************************************************************)
C7_IdentityMatchesN ==
    (gcnCall.called /\ Truthy(gcnCall.flag)) => gcnCall.res.identN = gcnCall.N

(***************************************************************************)
(* C8.  one_hot_by_column returns an array with the rows of its input and  *)
(* a width equal to the sum over columns of (max - min + 1), one block per *)
(* column in input order; in each row each block holds exactly one 1, at   *)
(* offset (value - column min), and 0 elsewhere.                           *)
(***************************************************************************)
BlockWidth(data, i) == SeqMax(Column(data, i)) - SeqMin(Column(data, i)) + 1

RECURSIVE BlockStart(_, _)
\* the number of output columns before the block of input column i
BlockStart(data, i) == IF i = 1 THEN 0 ELSE BlockStart(data, i - 1) + BlockWidth(data, i - 1)

IsOneHotOf(data, out) ==
    /\ Len(out) = data.rows
    /\ \A r \in 1..data.rows :
          /\ Len(out[r]) = BlockStart(data, data.cols) + BlockWidth(data, data.cols)
          /\ \A i \in 1..data.cols : \A j \in 1..BlockWidth(data, i) :
                out[r][BlockStart(data, i) + j]
                    = IF j - 1 = data.cell[r][i] - SeqMin(Column(data, i)) THEN 1 ELSE 0

\* C8 as stated: for every 2D integer array with at least one column.
C8_OneHotEveryArray ==
    (colOut.op = "one_hot_by_column") => colOut.ok /\ IsOneHotOf(table, colOut.value)

\* C8, amended: for every 2D integer array with at least one column and at
\* least one row (column.max() of an empty column raises).
C8_OneHotNonEmpty ==
    (colOut.op = "one_hot_by_column" /\ table.rows >= 1) =>
        colOut.ok /\ IsOneHotOf(table, colOut.value)

\* Two rows, two columns, the first column not starting at 0.
C8_Witness ==
    /\ colOut.op = "one_hot_by_column" /\ colOut.ok
    /\ table.rows = 2 /\ table.cols = 2
    /\ table.cell[1][1] = 1 /\ table.cell[2][1] = 2
    /\ colOut.value[2][1] = 0 /\ colOut.value[2][2] = 1

(***************************************************************************)
(* C9.  As stated: minmax_by_column returns, also for columns whose values *)
(* are all equal, an array of the same shape in which every entry is a     *)
(* defined value in [0, 1], each column's minimum maps to 0 and each       *)
(* non-constant column's maximum maps to 1; the input is left unchanged.   *)
(* Checked on arrays with at least one row.                                *)
(***************************************************************************)
C9_MinMaxDefined ==
    (colOut.op = "minmax_by_column" /\ table.rows >= 1) =>
        /\ colOut.ok
        /\ Len(colOut.value) = table.rows
        /\ \A r \in 1..table.rows :
              /\ Len(colOut.value[r]) = table.cols
              /\ \A i \in 1..table.cols :
                    LET e == colOut.value[r][i]
                        col == Column(table, i)
                    IN  /\ IsFinite(e) /\ FLeq(Num(0), e) /\ FLeq(e, Num(1))
                        /\ table.cell[r][i] = SeqMin(col) => FEq(e, Num(0))
                        /\ (table.cell[r][i] = SeqMax(col) /\ SeqMax(col) # SeqMin(col))
                              => FEq(e, Num(1))

(***************************************************************************)
(* C10.  As stated: after any sequence of transform and inverse_transform  *)
(* calls on a StandardScaler, also with inverse_transform on data narrower *)
(* than the stored mean, the stored mean and std have the values and the   *)
(* width they had at construction.                                         *)
(***************************************************************************)
C10_ParametersKept ==
    scaler.kind = "StandardScaler" =>
        /\ scaler.type = scaler.args[3]
        /\ scaler.mean = scaler.args[1] /\ scaler.std = scaler.args[2]

(***************************************************************************)
(* C11.  As stated: get_weights and set_weights are a round trip; for      *)
(* every subset of parameters marked non-trainable,                        *)
(* set_weights(get_weights()[0]) leaves every parameter's value unchanged, *)
(* and set_weights assigns the i-th exported weight to the parameter whose *)
(* name is the i-th exported name.                                         *)
(***************************************************************************)
ParamIndex(name) == CHOOSE i \in 1..Len(params) : params[i].name = name

C11_WeightsRoundTrip ==
    /\ weightsOut.op = "round_trip" =>
          \A i \in 1..Len(params) : params[i].data = weightsOut.before[i].data
    /\ (/\ weightsOut.op \in {"round_trip", "set_weights"}
        /\ Len(weightsOut.weights) = Len(weightsOut.names)) =>
          \A i \in 1..Len(weightsOut.names) :
              params[ParamIndex(weightsOut.names[i])].data = weightsOut.weights[i]

====
